---- MODULE Spec2Model ----
(***************************************************************************)
(* Model of the text-to-speech conversion pipeline of the useTTS hook:     *)
(* text segmentation, the sequential per-chunk synthesis requests, the     *)
(* progress aggregation, the assembly of the fragments and the object-URL  *)
(* bookkeeping, for the single conversion (convertToSpeech), the batch     *)
(* conversion (convertMultiple), the voice test (testVoice) and reset.     *)
(*                                                                         *)
(* JavaScript runs one task at a time: an action of this model is the code *)
(* that runs between two suspension points (an awaited network request or  *)
(* an awaited audio decode), with every state write and callback it makes. *)
(***************************************************************************)
EXTENDS Integers, Sequences, FiniteSets, TLC

\* ------------------------------------------------------------------ bounds

\* CHUNK_SIZE of the hook, scaled down so that TLC can enumerate texts.
ChunkSize == 3
\* Largest number of jobs in one batch.
MaxJobs == 2
\* Number of runs (conversions, voice tests) started in one behaviour.
MaxOps == 2
\* Download-progress events delivered per request at most.
ProgressSteps == 1
\* Bytes the server sends per character of input (the hook estimates 50).
RespBytesPerChar == 60

\* ------------------------------------------------------------------ text

\* A text is a sequence of characters; "a" stands for any letter, and the
\* line feed for any whitespace character that is not the space.
Chars == {"a", ".", " ", "\n"}

\* \s of the regular expression, and what trim() removes
IsSpace(c) == c \in {" ", "\n"}

Min(a, b) == IF a < b THEN a ELSE b
Max(a, b) == IF a > b THEN a ELSE b

\* String.prototype.slice(from, to) on 0-based indices, from <= to.
Slice(s, from, to) ==
    LET f == Min(Max(from, 0), Len(s))
        t == Min(Max(to, 0), Len(s))
    IN  IF t <= f THEN << >> ELSE SubSeq(s, f + 1, t)

RECURSIVE TrimStart(_)
TrimStart(s) ==
    IF s = << >> THEN << >>
    ELSE IF IsSpace(Head(s)) THEN TrimStart(Tail(s)) ELSE s

RECURSIVE TrimEnd(_)
TrimEnd(s) ==
    IF s = << >> THEN << >>
    ELSE IF IsSpace(s[Len(s)]) THEN TrimEnd(SubSeq(s, 1, Len(s) - 1)) ELSE s

\* String.prototype.trim
Trim(s) == TrimEnd(TrimStart(s))

\* Length of the run of whitespace that starts s.
RECURSIVE SpaceRun(_)
SpaceRun(s) ==
    IF s = << >> \/ ~IsSpace(Head(s)) THEN 0 ELSE 1 + SpaceRun(Tail(s))

\* text.replace(/\s{2,}/g, ' '): every run of two or more whitespace
\* characters becomes one space; a single whitespace character is kept.
RECURSIVE CollapseSpaces(_)
CollapseSpaces(s) ==
    IF s = << >> THEN << >>
    ELSE LET n == SpaceRun(s)
         IN  IF n >= 2 THEN <<" ">> \o CollapseSpaces(SubSeq(s, n + 1, Len(s)))
             ELSE <<Head(s)>> \o CollapseSpaces(Tail(s))

removeExtraWhitespaces(text) == Trim(CollapseSpaces(text))

\* String.prototype.lastIndexOf(c, from): the largest 0-based index <= from
\* that holds c, or -1.
LastIndexOf(s, c, from) ==
    LET hits == {k \in 0..Min(from, Len(s) - 1) : s[k + 1] = c}
    IN  IF hits = {} THEN -1 ELSE CHOOSE k \in hits : \A m \in hits : m <= k

\* String.prototype.indexOf(c, from): the smallest 0-based index >= from
\* that holds c, or -1.
IndexOf(s, c, from) ==
    LET hits == {k \in Max(from, 0)..(Len(s) - 1) : s[k + 1] = c}
    IN  IF hits = {} THEN -1 ELSE CHOOSE k \in hits : \A m \in hits : k <= m

\* The loop of splitTextIntoChunks from chunk start currentIndex on, with the
\* chunks pushed so far.  The result is [ok, chunks]: ok = FALSE is the thrown
\* "Sentence exceeds chunk size limit" error, with no chunks returned.
RECURSIVE SplitLoop(_, _, _, _)

\* Mutant: a sentence that is too long ends the segmentation with the chunks
\* cut before it, the way a generator yields them, and nothing is thrown.
SplitLoopYieldsPrefix(cleanedText, maxChunkSize, currentIndex, chunks) ==
    IF ~(currentIndex < Len(cleanedText)) THEN [ok |-> TRUE, chunks |-> chunks]
    ELSE
      LET endIndex0 == currentIndex + maxChunkSize
          periodIndex == LastIndexOf(cleanedText, ".", endIndex0)
          nextPeriodIndex == IndexOf(cleanedText, ".", endIndex0)
          throws ==
              /\ endIndex0 < Len(cleanedText)
              /\ ~(periodIndex > currentIndex)
              /\ \/ nextPeriodIndex = -1
                 \/ 2 * (nextPeriodIndex - currentIndex) > 3 * maxChunkSize
          endIndex ==
              IF endIndex0 < Len(cleanedText)
              THEN IF periodIndex > currentIndex THEN periodIndex + 1
                   ELSE nextPeriodIndex + 1
              ELSE endIndex0
          chunk == Trim(Slice(cleanedText, currentIndex, endIndex))
      IN  IF throws THEN [ok |-> TRUE, chunks |-> chunks]
          ELSE SplitLoop(cleanedText, maxChunkSize, endIndex,
                         IF chunk # << >> THEN Append(chunks, chunk) ELSE chunks)

SplitLoop(cleanedText, maxChunkSize, currentIndex, chunks) ==
    IF ~(currentIndex < Len(cleanedText)) THEN [ok |-> TRUE, chunks |-> chunks]
    ELSE
      LET endIndex0 == currentIndex + maxChunkSize
          periodIndex == LastIndexOf(cleanedText, ".", endIndex0)
          nextPeriodIndex == IndexOf(cleanedText, ".", endIndex0)
          throws ==
              /\ endIndex0 < Len(cleanedText)
              /\ ~(periodIndex > currentIndex)
              /\ \/ nextPeriodIndex = -1
                 \/ 2 * (nextPeriodIndex - currentIndex) > 3 * maxChunkSize
          endIndex ==
              IF endIndex0 < Len(cleanedText)
              THEN IF periodIndex > currentIndex THEN periodIndex + 1
                   ELSE nextPeriodIndex + 1
              ELSE endIndex0
          chunk == Trim(Slice(cleanedText, currentIndex, endIndex))
      IN  IF throws THEN [ok |-> FALSE, chunks |-> << >>]
          ELSE SplitLoop(cleanedText, maxChunkSize, endIndex,
                         IF chunk # << >> THEN Append(chunks, chunk) ELSE chunks)

splitTextIntoChunks(text, maxChunkSize) ==
    SplitLoop(removeExtraWhitespaces(text), maxChunkSize, 0, << >>)

\* Mutant: the forward search accepts a period up to twice the size away.
SplitIterationTwiceTheSize(cleanedText, maxChunkSize, currentIndex) ==
    LET endIndex0 == currentIndex + maxChunkSize
        periodIndex == LastIndexOf(cleanedText, ".", endIndex0)
        nextPeriodIndex == IndexOf(cleanedText, ".", endIndex0)
        throws ==
            /\ endIndex0 < Len(cleanedText)
            /\ ~(periodIndex > currentIndex)
            /\ \/ nextPeriodIndex = -1
               \/ nextPeriodIndex - currentIndex > 2 * maxChunkSize
        endIndex ==
            IF endIndex0 < Len(cleanedText)
            THEN IF periodIndex > currentIndex THEN periodIndex + 1
                 ELSE nextPeriodIndex + 1
            ELSE endIndex0
    IN  [throws |-> throws, endIndex |-> endIndex,
         chunk |-> Trim(Slice(cleanedText, currentIndex, endIndex))]

\* Mutant: with no period ahead, a rest of up to 1.5 times the size is taken
\* as the last chunk.
SplitIterationTakesRest(cleanedText, maxChunkSize, currentIndex) ==
    LET endIndex0 == currentIndex + maxChunkSize
        periodIndex == LastIndexOf(cleanedText, ".", endIndex0)
        nextPeriodIndex == IndexOf(cleanedText, ".", endIndex0)
        reach == IF nextPeriodIndex = -1 THEN Len(cleanedText) - 1
                 ELSE nextPeriodIndex
        throws ==
            /\ endIndex0 < Len(cleanedText)
            /\ ~(periodIndex > currentIndex)
            /\ 2 * (reach - currentIndex) > 3 * maxChunkSize
        endIndex ==
            IF endIndex0 < Len(cleanedText)
            THEN IF periodIndex > currentIndex THEN periodIndex + 1
                 ELSE reach + 1
            ELSE endIndex0
    IN  [throws |-> throws, endIndex |-> endIndex,
         chunk |-> Trim(Slice(cleanedText, currentIndex, endIndex))]

\* One pass of the while loop of splitTextIntoChunks with chunk start
\* currentIndex < cleanedText.length: whether it throws, and if not where the
\* chunk ends and the trimmed chunk (pushed when it is not empty).
SplitIteration(cleanedText, maxChunkSize, currentIndex) ==
    LET endIndex0 == currentIndex + maxChunkSize
        periodIndex == LastIndexOf(cleanedText, ".", endIndex0)
        nextPeriodIndex == IndexOf(cleanedText, ".", endIndex0)
        throws ==
            /\ endIndex0 < Len(cleanedText)
            /\ ~(periodIndex > currentIndex)
            /\ \/ nextPeriodIndex = -1
               \/ 2 * (nextPeriodIndex - currentIndex) > 3 * maxChunkSize
        endIndex ==
            IF endIndex0 < Len(cleanedText)
            THEN IF periodIndex > currentIndex THEN periodIndex + 1
                 ELSE nextPeriodIndex + 1
            ELSE endIndex0
    IN  [throws |-> throws, endIndex |-> endIndex,
         chunk |-> Trim(Slice(cleanedText, currentIndex, endIndex))]

\* One pass of the while loop of the generator chunkText: the same with
\* CHUNK_SIZE for the size and for the limit of the forward search.
ChunkTextIteration(normalizedText, chunkSize, currentIndex) ==
    LET endIndex0 == currentIndex + chunkSize
        periodIndex == LastIndexOf(normalizedText, ".", endIndex0)
        nextPeriodIndex == IndexOf(normalizedText, ".", endIndex0)
        throws ==
            /\ endIndex0 < Len(normalizedText)
            /\ ~(periodIndex > currentIndex)
            /\ \/ nextPeriodIndex = -1
               \/ nextPeriodIndex - currentIndex > chunkSize
        endIndex ==
            IF endIndex0 < Len(normalizedText)
            THEN IF periodIndex > currentIndex THEN periodIndex + 1
                 ELSE nextPeriodIndex + 1
            ELSE endIndex0
    IN  [throws |-> throws, endIndex |-> endIndex,
         chunk |-> Trim(Slice(normalizedText, currentIndex, endIndex))]


\* ------------------------------------------------------------------ inputs

\* Mutant: only the empty string counts as no text.
BlankEmptyOnly(text) == text = << >>

\* text.trim().length === 0, or the empty string
Blank(text) == text = << >> \/ Trim(text) = << >>

TextEmpty == << >>
TextBlank == <<" ">>
\* one sentence, one chunk
TextOne == <<"a", ".">>
\* two sentences of ChunkSize characters each: two chunks
TextTwo == [k \in 1..(2 * ChunkSize) |-> IF k % ChunkSize = 0 THEN "." ELSE "a"]
\* no period at all and longer than a chunk: segmentation throws
TextLong == [k \in 1..(2 * ChunkSize + 2) |-> "a"]

\* a sentence that fits, then a sentence without end: segmentation throws
\* after it has cut the first chunk
TextLateLong == <<"a", ".">> \o TextLong

JobTexts == {TextBlank, TextOne, TextTwo, TextLong, TextLateLong}
SingleTexts == JobTexts \cup {TextEmpty}

\* The two credentials the model tells apart: none, and some key.
ApiKeys == {"", "sk"}

\* ------------------------------------------------------------------ values

\* AudioOutput (types/index.ts), without the fields the hook never reads.
\* audioUrl 0 is null; error "" is an absent error field.
NoUrl == 0
NoError == ""
NewJob(text) ==
    [text |-> text, status |-> "pending", audioUrl |-> NoUrl, error |-> NoError]

\* The lists handleConvert builds: every job pending, without audio.
FreshOutputs ==
    UNION {[1..n -> {NewJob(t) : t \in JobTexts}] : n \in 0..MaxJobs}

\* A toast: its variant, its text and, for the batch summary, the count in it.
NoToast == [variant |-> "none", description |-> "", count |-> 0]
ErrorToast(msg) == [variant |-> "destructive", description |-> msg, count |-> 0]
SuccessToast(msg, n) == [variant |-> "default", description |-> msg, count |-> n]

MsgEnterText == "Please enter text to convert."
MsgEnterKey == "Please enter your OpenAI API key."
MsgNoText == "No text to convert"
MsgTooLong == "Sentence exceeds chunk size limit"
MsgDecode == "Unable to decode audio data"
MsgNoBuffers == "No audio buffers to merge"
MsgGenerated == "Audio generated successfully!"
MsgBatchGenerated == "Generated audio files successfully!"
MsgUnexpected == "An unexpected error occurred while generating speech."
MsgTestGenerated == "Voice test generated successfully!"
\* `Failed to generate audio for chunk ${j + 1}`
MsgChunkFailed(j) ==
    CASE j = 0 -> "Failed to generate audio for chunk 1"
      [] j = 1 -> "Failed to generate audio for chunk 2"
      [] OTHER -> "Failed to generate audio for chunk n"

\* What a synthesis request can end with: the audio, an HTTP error status, or
\* no response at all (a transport failure), or an error that is no axios error.
Outcomes == {"ok", "401", "429", "500", "503", "network", "thrown"}

\* sendTextForTTS with no classes: one message for every failure.
FailureMessageGenericOnly(outcome) == "Failed to generate speech."

\* The toast sendTextForTTS shows for a failed request.
FailureMessage(outcome) ==
    CASE outcome = "401" -> "Invalid API key. Please check your OpenAI API key."
      [] outcome = "429" -> "Rate limit exceeded. Please try again later."
      [] outcome = "500" -> "OpenAI service error. Please try again later."
      [] outcome = "thrown" -> MsgUnexpected
      [] OTHER -> "Failed to generate speech."

\* ------------------------------------------------------------------ progress

\* Math.round of the non-negative quotient n / d
Round(n, d) == (2 * n + d) \div (2 * d)

\* The estimate of the response size when the server declares none.
BytesPerChar == 50
ProgressCap == 95
\* TEST_TEXT.length
TestTextLength == 37

\* Mutant: the estimate is reported as it comes, without the cap.
DownloadPercentageUncapped(loaded, total, textLength) ==
    IF total # 0 THEN Round(loaded * 100, total)
    ELSE Round(loaded * 100, textLength * BytesPerChar)

\* The percentage onDownloadProgress reports; total = 0 is an undeclared
\* content length.
DownloadPercentage(loaded, total, textLength) ==
    IF total # 0 THEN Round(loaded * 100, total)
    ELSE Min(ProgressCap, Round(loaded * 100, textLength * BytesPerChar))

\* A request in flight: who awaits it, for which job and chunk, the length of
\* its text, whether the caller passed a progress callback, how many progress
\* events it has had and whether they carry the total (the response declares
\* its content length; known from the first event on).
Request(owner, job, chunk, len, callback) ==
    [owner |-> owner, job |-> job, chunk |-> chunk, len |-> len,
     callback |-> callback, stage |-> 0, declared |-> FALSE]

\* The request after one more progress event, of a response that declares its
\* length or not.
Progressed(r, declared) ==
    [r EXCEPT !.stage = @ + 1, !.declared = IF r.stage = 0 THEN declared ELSE @]

BodySize(r) == r.len * RespBytesPerChar
Loaded(r, stage) == (BodySize(r) * stage) \div ProgressSteps
\* the percentage the last progress event of r reported
EventPercentage(r) ==
    DownloadPercentage(Loaded(r, r.stage),
                       IF r.declared THEN BodySize(r) ELSE 0, r.len)

\* convertToSpeech: progress of the job while chunk i reports chunkProgress
SingleProgressValue(i, chunkProgress, totalChunks) ==
    Min(100, (100 * i + chunkProgress) \div totalChunks)

\* convertMultiple: global progress while chunk j of the active job reports
\* chunkProgress, floor(((completed + (j + p/100)/chunks) / total) * 100)
GlobalProgressValue(completedItems, j, chunkProgress, nChunks, totalItems) ==
    Min(100, (100 * nChunks * completedItems + 100 * j + chunkProgress)
                 \div (nChunks * totalItems))

\* convertMultiple: floor((completedItems / totalItems) * 100)
CompletedProgressValue(completedItems, totalItems) ==
    (completedItems * 100) \div totalItems


\* ------------------------------------------------------------------ state

\* The two revisions of the hook in the repository: "progress" passes a
\* download-progress callback to every request and always concatenates the
\* fragments; "decode" passes no callback and decodes and re-encodes two or
\* more fragments.
Revisions == {"progress", "decode"}

VARIABLES
    revision,          \* which revision of the hook runs
    apiKey,            \* the credential the hook was rendered with
    isProcessing, isTesting, progress, audioUrl, testAudioUrl,
    audioUrlRef, testAudioUrlRef,
    lastToast,         \* the toast shown last
    urlCount,          \* object URLs created so far; they are 1..urlCount
    blobs,             \* the blob each object URL was created for
    revoked,           \* object URLs revoked so far
    inFlight,          \* synthesis requests sent and not yet answered
    opsStarted,        \* runs started so far
    \* convertToSpeech: where the run is, and its locals
    sPc, sChunks, sI, sBuffers,
    sWrites,           \* summary of the run's writes to progress, isProcessing
    sResults,          \* the outcomes of the run's chunk requests, in order
    sAssembled,        \* whether the run's fragments went to mergeBuffers
    \* convertMultiple: where the run is, its arguments and its locals
    bPc, outputs, updatedOutputs, bI, bJ, bChunks, bBuffers, completedItems,
    audioOutputs,      \* the list onProgress received last in the run
    cbCount,           \* calls of onProgress in the run
    bSnapshots,        \* the lists onProgress received in the run, in order,
                       \* each with the requests the run had issued by then
    returned,          \* the list the call returned; << >> while it runs
    successCount,
    bWrites,           \* summary of the run's writes to progress
    bRun,              \* runs of convertMultiple started so far
    bRequests,         \* requests the run has issued
    bIssued,           \* <<job, chunk>> of the request the run issued last
    bResults,          \* per job, the outcomes of its chunk requests in the run
    bAssembled,        \* jobs of the run whose fragments went to mergeBuffers
    \* testVoice: where the run is
    tPc,
    tIdleStart,        \* the voice test was started while no conversion ran
    \* a function of the hook or of the library called on its own: the call
    \* and what it returned
    fnCall, fnLocals, fnResult,
    \* useFileUpload: the uploaded files, the flag, the addFiles calls whose
    \* reads are pending, the toast shown last, the file ids given out
    files, isLoading, pendingAdds, uploadToast, fileIds

hookVars == <<revision, apiKey, isProcessing, isTesting, progress, audioUrl,
              testAudioUrl, audioUrlRef, testAudioUrlRef, lastToast, urlCount, blobs,
              revoked, inFlight, opsStarted>>
singleVars == <<sPc, sChunks, sI, sBuffers, sWrites, sResults, sAssembled>>
batchVars == <<bPc, outputs, updatedOutputs, bI, bJ, bChunks, bBuffers,
               completedItems, audioOutputs, cbCount, bSnapshots, returned,
               successCount, bWrites, bRun, bRequests, bIssued, bResults, bAssembled>>
testVars == <<tPc, tIdleStart>>
callVars == <<fnCall, fnLocals, fnResult>>
uploadVars == <<files, isLoading, pendingAdds, uploadToast, fileIds>>
vars == <<hookVars, singleVars, batchVars, testVars, callVars, uploadVars>>

NoCall == [fn |-> "none"]

\* Summary of a run's writes to progress: the first and the last value it
\* wrote (-1: none yet), whether every write was >= the one before it, and the
\* value it wrote last to isProcessing.
NoWrites == [first |-> -1, last |-> -1, mono |-> TRUE, processing |-> "none"]
WroteProgress(w, v) ==
    [w EXCEPT !.first = IF w.first = -1 THEN v ELSE w.first,
              !.last = v,
              !.mono = w.mono /\ (w.last = -1 \/ v >= w.last)]
WroteProcessing(w, b) == [w EXCEPT !.processing = IF b THEN "true" ELSE "false"]

\* An audio fragment: the chunk it answers and its size in bytes.
Fragment(r) == [chunk |-> r.chunk, bytes |-> BodySize(r)]

HookInit ==
    /\ revision \in Revisions
    /\ apiKey \in ApiKeys
    /\ isProcessing = FALSE /\ isTesting = FALSE /\ progress = 0
    /\ audioUrl = NoUrl /\ testAudioUrl = NoUrl
    /\ audioUrlRef = NoUrl /\ testAudioUrlRef = NoUrl
    /\ lastToast = NoToast
    /\ urlCount = 0 /\ blobs = << >> /\ revoked = {} /\ inFlight = {} /\ opsStarted = 0
    /\ sPc = "idle" /\ sChunks = << >> /\ sI = 0 /\ sBuffers = << >>
    /\ sWrites = NoWrites /\ sResults = << >> /\ sAssembled = FALSE
    /\ bPc = "idle" /\ outputs = << >> /\ updatedOutputs = << >>
    /\ bI = 0 /\ bJ = 0 /\ bChunks = << >> /\ bBuffers = << >>
    /\ completedItems = 0 /\ audioOutputs = << >> /\ cbCount = 0
    /\ bSnapshots = << >>
    /\ returned = << >> /\ successCount = 0
    /\ bWrites = NoWrites /\ bRun = 0 /\ bRequests = 0 /\ bIssued = <<-1, -1>>
    /\ bResults = << >> /\ bAssembled = {}
    /\ tPc = "idle"
    /\ tIdleStart = FALSE
    /\ files = << >> /\ isLoading = FALSE /\ pendingAdds = << >>
    /\ uploadToast = "none" /\ fileIds = 0

\* The hook as constructed; no function is called on its own.
Init == HookInit /\ fnCall = NoCall /\ fnLocals = NoCall /\ fnResult = NoCall

\* Mutant: the credential is not checked.
SingleRejectsTextOnly(text, key) == IF Blank(text) THEN MsgEnterText ELSE ""

\* Mutant: the credential is not checked.
BatchRejectsNothing(key) == FALSE

\* The checks convertToSpeech opens with: the toast of the check that fails,
\* or "" when the text and the credential pass.
SingleRejects(text, key) ==
    IF Blank(text) THEN MsgEnterText
    ELSE IF key = "" THEN MsgEnterKey
    ELSE ""

\* if (!apiKey) of convertMultiple
BatchRejects(key) == key = ""

\* if (!apiKey) of testVoice
TestRejects(key) == key = ""

\* cleanupBlobUrl(urlRef): the URL to revoke, if the ref holds one
CleanupRevokes(ref) == IF ref # NoUrl THEN {ref} ELSE {}

\* A blob: how it was made, the chunks whose fragments it holds, in order,
\* and its size in bytes (-1: re-encoded audio, whose size the sizes of the
\* fragments do not determine).
NoBlob == [policy |-> "none", parts |-> << >>, size |-> 0]

RECURSIVE SumBytes(_)
SumBytes(buffers) ==
    IF buffers = << >> THEN 0
    ELSE buffers[1].bytes + SumBytes(Tail(buffers))

\* Mutant: the fragments go into the blob last to first.
concatenateBuffersReversed(buffers) ==
    [policy |-> "concatenated",
     parts |-> [i \in 1..Len(buffers) |-> buffers[Len(buffers) + 1 - i].chunk],
     size |-> SumBytes(buffers)]

\* new Blob(buffers, { type: 'audio/mp3' })
concatenateBuffers(buffers) ==
    [policy |-> "concatenated",
     parts |-> [i \in 1..Len(buffers) |-> buffers[i].chunk],
     size |-> SumBytes(buffers)]

\* What an assembler call ends with: the blob, or the error thrown.
Assembled(blob) == [ok |-> TRUE, error |-> NoError, blob |-> blob]
AssemblyError(msg) == [ok |-> FALSE, error |-> msg, blob |-> NoBlob]

\* mergeAudioBuffers(buffers); decodable: the decoder accepts every fragment
mergeAudioBuffers(buffers, decodable) ==
    IF Len(buffers) = 0 THEN AssemblyError(MsgNoBuffers)
    ELSE IF Len(buffers) = 1 THEN Assembled(concatenateBuffers(buffers))
    ELSE IF ~decodable THEN AssemblyError(MsgDecode)
    ELSE Assembled([policy |-> "decoded",
                    parts |-> [i \in 1..Len(buffers) |-> buffers[i].chunk],
                    size |-> -1])

\* mergeBuffers(buffers) of the hook, in its two revisions
mergeBuffers(rev, buffers, decodable) ==
    IF rev = "progress" THEN Assembled(concatenateBuffers(buffers))
    ELSE IF Len(buffers) = 1 THEN Assembled(concatenateBuffers(buffers))
    ELSE mergeAudioBuffers(buffers, decodable)

\* mergeBuffers: TRUE when the merge suspends the run on the audio decoder
\* (mergeAudioBuffers with two or more fragments), FALSE when it returns the
\* concatenation at once.
MergeDecodes(rev, buffers) == rev = "decode" /\ Len(buffers) >= 2

\* mergeBuffers: TRUE when it throws at once (mergeAudioBuffers, no fragment)
MergeThrowsEmpty(rev, buffers) == rev = "decode" /\ Len(buffers) = 0


\* ------------------------------------------------------------------ convertMultiple

\* The variables a run of convertMultiple reads and writes, as one record, so
\* that the code between two suspension points is one action.
BatchContext ==
    [outs |-> updatedOutputs, i |-> bI, j |-> bJ, chunks |-> bChunks,
     buffers |-> bBuffers, completed |-> completedItems, pc |-> bPc,
     progress |-> progress, isProcessing |-> isProcessing, toast |-> lastToast,
     urlCount |-> urlCount, blobs |-> blobs, sink |-> audioOutputs, cbCount |-> cbCount,
     snapshots |-> bSnapshots,
     returned |-> returned, successCount |-> successCount, writes |-> bWrites,
     sent |-> {}, requests |-> bRequests, issued |-> bIssued,
     results |-> bResults, assembled |-> bAssembled]

BatchAssign(c) ==
    /\ updatedOutputs' = c.outs /\ bI' = c.i /\ bJ' = c.j /\ bChunks' = c.chunks
    /\ bBuffers' = c.buffers /\ completedItems' = c.completed /\ bPc' = c.pc
    /\ progress' = c.progress /\ isProcessing' = c.isProcessing
    /\ lastToast' = c.toast /\ urlCount' = c.urlCount /\ blobs' = c.blobs
    /\ audioOutputs' = c.sink /\ cbCount' = c.cbCount
    /\ bSnapshots' = c.snapshots
    /\ returned' = c.returned /\ successCount' = c.successCount
    /\ bWrites' = c.writes /\ bRequests' = c.requests /\ bIssued' = c.issued
    /\ bResults' = c.results /\ bAssembled' = c.assembled

\* setProgress(v)
BatchSetProgress(c, v) ==
    [c EXCEPT !.progress = v, !.writes = WroteProgress(@, v)]

\* onProgress([...updatedOutputs])
BatchCallback(c) ==
    [c EXCEPT !.sink = c.outs, !.cbCount = @ + 1,
              !.snapshots = Append(@, [outs |-> c.outs, requests |-> c.requests])]

\* Mutant: the callback was handed updatedOutputs itself, not a copy, so the
\* assignment shows in every list handed out before.
BatchSetJobShared(c, job) ==
    [c EXCEPT !.outs[c.i + 1] = job,
              !.sink = IF c.cbCount > 0 THEN [@ EXCEPT ![c.i + 1] = job] ELSE @,
              !.snapshots = [k \in DOMAIN @ |->
                                [@[k] EXCEPT !.outs[c.i + 1] = job]]]

\* updatedOutputs[i] = job
BatchSetJob(c, job) == [c EXCEPT !.outs[c.i + 1] = job]

\* Mutant: the catch block publishes an artifact for the failed job.
BatchJobErrorWithArtifact(c, output, msg) ==
    LET url == c.urlCount + 1
    IN  BatchCallback(BatchSetJob([c EXCEPT !.urlCount = url,
                                            !.blobs = Append(@, NoBlob)],
            [output EXCEPT !.status = "error", !.error = msg, !.audioUrl = url]))

\* Mutant: the catch block spreads the job as it was before the run took it
\* up and sets the error alone, not the status.
BatchJobErrorKeepsStaleStatus(c, output, msg) ==
    BatchCallback(BatchSetJob(c, [output EXCEPT !.error = msg]))

\* updatedOutputs[i] = { ...output, status: 'error', error }; onProgress(...)
\* completedItems is left as it is.
BatchJobError(c, output, msg) ==
    BatchCallback(BatchSetJob(c, [output EXCEPT !.status = "error", !.error = msg]))

\* The success branch: the object URL, the job, completedItems++, the overall
\* progress, the callback.
BatchJobSuccess(c, output) ==
    LET url == c.urlCount + 1
        blob == mergeBuffers(revision, c.buffers, TRUE).blob
        c1 == BatchSetJob([c EXCEPT !.urlCount = url, !.blobs = Append(@, blob),
                                    !.completed = @ + 1],
                          [output EXCEPT !.status = "success", !.audioUrl = url])
    IN  BatchCallback(
            BatchSetProgress(c1, CompletedProgressValue(c1.completed, Len(c1.outs))))

\* Mutant: a job in error ends the loop over the jobs (break for continue).
BatchNextJobStopsOnError(c) ==
    IF c.outs[c.i + 1].status = "error"
    THEN [c EXCEPT !.i = Len(c.outs)]
    ELSE [c EXCEPT !.i = @ + 1]

\* the step of the for loop over the jobs
BatchNextJob(c) == [c EXCEPT !.i = @ + 1]

\* After the loop: the flags, the count of successes, the toast, the return.
BatchFinish(c) ==
    LET n == Cardinality({k \in 1..Len(c.outs) : c.outs[k].status = "success"})
        c1 == [c EXCEPT !.isProcessing = FALSE,
                        !.writes = WroteProcessing(@, FALSE)]
    IN  [BatchSetProgress(c1, 100) EXCEPT
            !.successCount = n,
            !.toast = IF n > 0 THEN SuccessToast(MsgBatchGenerated, n) ELSE @,
            !.returned = c.outs,
            !.pc = "done"]

\* Mutant: the request for the next chunk leaves together with this one.
BatchIssueAhead(c) ==
    [c EXCEPT !.sent = @ \cup
                  {Request("batch", c.i, j, Len(c.chunks[j + 1]),
                           revision = "progress") :
                       j \in c.j..Min(c.j + 1, Len(c.chunks) - 1)},
              !.requests = @ + 1,
              !.issued = <<c.i, c.j>>,
              !.pc = "await"]

\* await sendTextForTTS(chunks[j], j, ...): the request leaves, the run waits.
BatchIssue(c) ==
    [c EXCEPT !.sent = @ \cup {Request("batch", c.i, c.j, Len(c.chunks[c.j + 1]),
                                       revision = "progress")},
              !.requests = @ + 1,
              !.issued = <<c.i, c.j>>,
              !.pc = "await"]

RECURSIVE BatchLoop(_)
RECURSIVE BatchChunkLoop(_, _)

\* The for loop over the chunks of job c.i from chunk c.j on, up to the next
\* suspension; after the last chunk, the merge and the rest of the job.
BatchChunkLoop(c, output) ==
    IF c.j < Len(c.chunks) THEN BatchIssue(c)
    ELSE LET c1 == [c EXCEPT !.assembled = @ \cup {c.i}]
         IN  IF MergeThrowsEmpty(revision, c.buffers)
             THEN BatchLoop(BatchNextJob(
                      BatchJobError(c1, output, MsgNoBuffers)))
             ELSE IF MergeDecodes(revision, c.buffers)
             THEN [c1 EXCEPT !.pc = "merging"]
             ELSE BatchLoop(BatchNextJob(BatchJobSuccess(c1, output)))

\* Mutant: the text is segmented before the job is marked processing.
BatchLoopSegmentsFirst(c) ==
    IF ~(c.i < Len(c.outs)) THEN BatchFinish(c)
    ELSE
      LET output == c.outs[c.i + 1]
          seg == splitTextIntoChunks(removeExtraWhitespaces(output.text),
                                     ChunkSize)
      IN  IF Blank(output.text)
          THEN BatchLoop(BatchNextJob(BatchJobError(c, output, MsgNoText)))
          ELSE IF ~seg.ok
          THEN BatchLoop(BatchNextJob(BatchJobError(c, output, MsgTooLong)))
          ELSE BatchChunkLoop(
                   [BatchCallback(BatchSetJob(
                        c, [output EXCEPT !.status = "processing"]))
                      EXCEPT !.chunks = seg.chunks, !.buffers = << >>, !.j = 0],
                   output)

\* The for loop over the jobs from job c.i on, up to the next suspension or
\* to the end of the run.
BatchLoop(c) ==
    IF ~(c.i < Len(c.outs)) THEN BatchFinish(c)
    ELSE
      LET output == c.outs[c.i + 1]
      IN  IF Blank(output.text)
          THEN BatchLoop(BatchNextJob(BatchJobError(c, output, MsgNoText)))
          ELSE
            LET c1 == BatchCallback(
                          BatchSetJob(c, [output EXCEPT !.status = "processing"]))
                seg == splitTextIntoChunks(removeExtraWhitespaces(output.text),
                                           ChunkSize)
            IN  IF ~seg.ok
                THEN BatchLoop(BatchNextJob(BatchJobError(c1, output, MsgTooLong)))
                ELSE BatchChunkLoop(
                         [c1 EXCEPT !.chunks = seg.chunks, !.buffers = << >>,
                                    !.j = 0],
                         output)

NotConverting == sPc \in {"idle", "done"} /\ bPc \in {"idle", "done"}

\* convertMultiple(outputs, onProgress), up to its first suspension.
convertMultiple(outs) ==
    /\ opsStarted < MaxOps
    /\ opsStarted' = opsStarted + 1
    /\ IF BatchRejects(apiKey)
       THEN /\ lastToast' = ErrorToast(MsgEnterKey)
            /\ returned' = outs
            /\ UNCHANGED <<uploadVars, callVars, revision, apiKey, isProcessing, isTesting, progress,
                           audioUrl, testAudioUrl, audioUrlRef, testAudioUrlRef,
                           urlCount, blobs, revoked, inFlight>>
            /\ UNCHANGED <<bPc, outputs, updatedOutputs, bI, bJ, bChunks, bBuffers,
                           completedItems, audioOutputs, cbCount, bSnapshots,
                           successCount,
                           bWrites, bRun, bRequests, bIssued, bResults, bAssembled>>
       ELSE /\ NotConverting
            /\ LET c0 == [BatchContext EXCEPT
                             !.outs = outs, !.i = 0, !.j = 0, !.chunks = << >>,
                             !.buffers = << >>, !.completed = 0,
                             !.isProcessing = TRUE, !.cbCount = 0,
                             !.snapshots = << >>,
                             !.sink = << >>, !.returned = << >>,
                             !.writes = WroteProcessing(NoWrites, TRUE),
                             !.requests = 0, !.issued = <<-1, -1>>,
                             !.results = [k \in 1..Len(outs) |-> << >>],
                             !.assembled = {}]
                   c == BatchLoop(BatchSetProgress(c0, 0))
               IN  /\ BatchAssign(c)
                   /\ inFlight' = inFlight \cup c.sent
            /\ outputs' = outs
            /\ bRun' = bRun + 1
            /\ UNCHANGED <<uploadVars, callVars, revision, apiKey, isTesting, audioUrl, testAudioUrl,
                           audioUrlRef, testAudioUrlRef, revoked>>
    /\ UNCHANGED <<singleVars, testVars>>

\* onDownloadProgress of the request the run awaits: the callback convertMultiple
\* passed computes the global progress and writes it.
BatchProgressEvent(r, declared) ==
    /\ r \in inFlight /\ r.owner = "batch" /\ r.callback
    /\ r.stage < ProgressSteps
    /\ inFlight' = (inFlight \ {r}) \cup {Progressed(r, declared)}
    /\ LET v == GlobalProgressValue(completedItems, bJ,
                                    EventPercentage(Progressed(r, declared)),
                                    Len(bChunks), Len(outputs))
       IN  /\ progress' = v
           /\ bWrites' = WroteProgress(bWrites, v)
    /\ UNCHANGED <<uploadVars, callVars, revision, apiKey, isProcessing, isTesting, audioUrl,
                   testAudioUrl, audioUrlRef, testAudioUrlRef, lastToast,
                   urlCount, blobs, revoked, opsStarted>>
    /\ UNCHANGED <<bPc, outputs, updatedOutputs, bI, bJ, bChunks, bBuffers,
                   completedItems, audioOutputs, cbCount, bSnapshots, returned,
                   successCount,
                   bRun, bRequests, bIssued, bResults, bAssembled>>
    /\ UNCHANGED <<singleVars, testVars>>

\* Mutant: a request that returned no fragment is skipped, the run goes on
\* with the next chunk of the job.
BatchAnswerSkipsFailure(c, r, outcome) ==
    LET output == outputs[c.i + 1]
        c0 == [c EXCEPT !.results[c.i + 1] =
                            Append(@, IF outcome = "ok" THEN "ok" ELSE "failed")]
    IN  BatchChunkLoop([c0 EXCEPT !.buffers = IF outcome = "ok"
                                              THEN Append(@, Fragment(r)) ELSE @,
                                  !.j = @ + 1],
                       output)

\* Mutant: after a request that returned no fragment the run stays where it
\* is, waiting, with nothing in flight.
BatchAnswerHangs(c, r, outcome) ==
    LET output == outputs[c.i + 1]
        c0 == [c EXCEPT !.results[c.i + 1] =
                            Append(@, IF outcome = "ok" THEN "ok" ELSE "failed")]
    IN  IF outcome = "ok"
        THEN BatchChunkLoop([c0 EXCEPT !.buffers = Append(@, Fragment(r)),
                                       !.j = @ + 1],
                            output)
        ELSE [c0 EXCEPT !.toast = ErrorToast(FailureMessage(outcome))]

\* What the run does with the answer to the request for chunk c.j of job c.i:
\* with the audio, push it and go on with the chunks; with null, after the
\* toast of sendTextForTTS, throw into the catch block of the job and go on
\* with the jobs.  `output` is the job as the call received it.
BatchAnswer(c, r, outcome) ==
    LET output == outputs[c.i + 1]
        c0 == [c EXCEPT !.results[c.i + 1] =
                            Append(@, IF outcome = "ok" THEN "ok" ELSE "failed")]
    IN  IF outcome = "ok"
        THEN BatchChunkLoop([c0 EXCEPT !.buffers = Append(@, Fragment(r)),
                                       !.j = @ + 1],
                            output)
        ELSE BatchLoop(BatchNextJob(BatchJobError(
                 [c0 EXCEPT !.toast = ErrorToast(FailureMessage(outcome))],
                 output, MsgChunkFailed(c.j))))

\* The request the run awaits is answered: sendTextForTTS returns the audio or,
\* after its toast, null; the run goes on to its next suspension.
BatchResponse(r, outcome) ==
    /\ r \in inFlight /\ r.owner = "batch" /\ bPc = "await"
    /\ LET c == BatchAnswer(BatchContext, r, outcome)
       IN  /\ BatchAssign(c)
           /\ inFlight' = (inFlight \ {r}) \cup c.sent
    /\ UNCHANGED <<uploadVars, callVars, revision, apiKey, isTesting, audioUrl, testAudioUrl,
                   audioUrlRef, testAudioUrlRef, revoked, opsStarted>>
    /\ UNCHANGED <<outputs, bRun>>
    /\ UNCHANGED <<singleVars, testVars>>

\* mergeAudioBuffers comes back from the decoder: the merged audio, or the
\* decoder's error.
BatchMergeDone(decoded) ==
    /\ bPc = "merging"
    /\ LET output == outputs[bI + 1]
           c0 == [BatchContext EXCEPT
                     !.results[bI + 1] = Append(@, IF decoded THEN "decoded"
                                                   ELSE "undecodable")]
           c == IF decoded
                THEN BatchLoop(BatchNextJob(BatchJobSuccess(c0, output)))
                ELSE BatchLoop(BatchNextJob(BatchJobError(c0, output, MsgDecode)))
       IN  /\ BatchAssign(c)
           /\ inFlight' = inFlight \cup c.sent
    /\ UNCHANGED <<uploadVars, callVars, revision, apiKey, isTesting, audioUrl, testAudioUrl,
                   audioUrlRef, testAudioUrlRef, revoked, opsStarted>>
    /\ UNCHANGED <<outputs, bRun>>
    /\ UNCHANGED <<singleVars, testVars>>


\* ------------------------------------------------------------------ convertToSpeech

SingleContext ==
    [pc |-> sPc, chunks |-> sChunks, i |-> sI, buffers |-> sBuffers,
     progress |-> progress, isProcessing |-> isProcessing, toast |-> lastToast,
     urlCount |-> urlCount, blobs |-> blobs, audioUrl |-> audioUrl, audioUrlRef |-> audioUrlRef,
     writes |-> sWrites, sent |-> {}, results |-> sResults,
     assembled |-> sAssembled]

SingleAssign(c) ==
    /\ sPc' = c.pc /\ sChunks' = c.chunks /\ sI' = c.i /\ sBuffers' = c.buffers
    /\ progress' = c.progress /\ isProcessing' = c.isProcessing
    /\ lastToast' = c.toast /\ urlCount' = c.urlCount /\ blobs' = c.blobs
    /\ audioUrl' = c.audioUrl /\ audioUrlRef' = c.audioUrlRef
    /\ sWrites' = c.writes /\ sResults' = c.results /\ sAssembled' = c.assembled

SingleSetProgress(c, v) ==
    [c EXCEPT !.progress = v, !.writes = WroteProgress(@, v)]

\* Mutant: the finally block clears the flag and leaves the progress.
SingleFinallyLeavesProgress(c) ==
    [c EXCEPT !.isProcessing = FALSE, !.writes = WroteProcessing(@, FALSE),
              !.pc = "done"]

\* finally { setIsProcessing(false); setProgress(100); }
SingleFinally(c) ==
    [SingleSetProgress([c EXCEPT !.isProcessing = FALSE,
                                 !.writes = WroteProcessing(@, FALSE)], 100)
        EXCEPT !.pc = "done"]

\* catch (error) { toast(error.message) } finally { ... }
SingleCatch(c, msg) == SingleFinally([c EXCEPT !.toast = ErrorToast(msg)])

\* The object URL of the merged audio, the ref, the state, the toast.
SingleSuccess(c) ==
    LET url == c.urlCount + 1
        blob == mergeBuffers(revision, c.buffers, TRUE).blob
    IN  SingleFinally([c EXCEPT !.urlCount = url, !.blobs = Append(@, blob),
                                !.audioUrlRef = url,
                                !.audioUrl = url,
                                !.toast = SuccessToast(MsgGenerated, 0)])

\* The for loop over the chunks from chunk c.i on, up to the next suspension;
\* after the last chunk, the merge and the end of the run.
SingleChunkLoop(c) ==
    IF c.i < Len(c.chunks)
    THEN [c EXCEPT !.sent = @ \cup {Request("single", 0, c.i, Len(c.chunks[c.i + 1]),
                                            revision = "progress")},
                   !.pc = "await"]
    ELSE LET c1 == [c EXCEPT !.assembled = TRUE]
         IN  IF MergeThrowsEmpty(revision, c.buffers)
             THEN SingleCatch(c1, MsgNoBuffers)
             ELSE IF MergeDecodes(revision, c.buffers)
             THEN [c1 EXCEPT !.pc = "merging"]
             ELSE SingleSuccess(c1)

\* convertToSpeech(text), up to its first suspension
convertToSpeech(text) ==
    /\ IF SingleRejects(text, apiKey) # ""
       THEN /\ lastToast' = ErrorToast(SingleRejects(text, apiKey))
            /\ UNCHANGED <<uploadVars, callVars, revision, apiKey, isProcessing, isTesting, progress,
                           audioUrl, testAudioUrl, audioUrlRef, testAudioUrlRef,
                           urlCount, blobs, revoked, inFlight, opsStarted>>
            /\ UNCHANGED singleVars
       ELSE /\ NotConverting
            /\ opsStarted < MaxOps
            /\ opsStarted' = opsStarted + 1
            /\ revoked' = revoked \cup CleanupRevokes(audioUrlRef)
            /\ LET c0 == [SingleContext EXCEPT
                             !.isProcessing = TRUE,
                             !.writes = WroteProcessing(NoWrites, TRUE),
                             !.audioUrlRef = NoUrl, !.audioUrl = NoUrl,
                             !.chunks = << >>, !.i = 0, !.buffers = << >>,
                             !.results = << >>, !.assembled = FALSE]
                   c1 == SingleSetProgress(c0, 0)
                   seg == splitTextIntoChunks(removeExtraWhitespaces(text),
                                              ChunkSize)
                   c == IF ~seg.ok THEN SingleCatch(c1, MsgTooLong)
                        ELSE SingleChunkLoop([c1 EXCEPT !.chunks = seg.chunks])
               IN  /\ SingleAssign(c)
                   /\ inFlight' = inFlight \cup c.sent
            /\ UNCHANGED <<uploadVars, callVars, revision, apiKey, isTesting, testAudioUrl,
                           testAudioUrlRef>>
    /\ UNCHANGED <<batchVars, testVars>>

\* onDownloadProgress of the request the run awaits
SingleProgressEvent(r, declared) ==
    /\ r \in inFlight /\ r.owner = "single" /\ r.callback
    /\ r.stage < ProgressSteps
    /\ inFlight' = (inFlight \ {r}) \cup {Progressed(r, declared)}
    /\ LET v == SingleProgressValue(sI, EventPercentage(Progressed(r, declared)),
                                    Len(sChunks))
       IN  /\ progress' = v
           /\ sWrites' = WroteProgress(sWrites, v)
    /\ UNCHANGED <<uploadVars, callVars, revision, apiKey, isProcessing, isTesting, audioUrl,
                   testAudioUrl, audioUrlRef, testAudioUrlRef, lastToast,
                   urlCount, blobs, revoked, opsStarted>>
    /\ UNCHANGED <<sPc, sChunks, sI, sBuffers, sResults, sAssembled>>
    /\ UNCHANGED <<batchVars, testVars>>

\* the "decode" revision: after a chunk, setProgress(floor((i + 1) / total * 100))
ChunkDoneProgressValue(i, totalChunks) == Min(100, ((i + 1) * 100) \div totalChunks)

\* What the run does with the answer to the request for chunk c.i: with the
\* audio, push it (the "decode" revision writes the progress) and go on; with
\* null, after the toast of sendTextForTTS, throw into the catch block.
SingleAnswer(c, r, outcome) ==
    LET c0 == [c EXCEPT !.results = Append(@, IF outcome = "ok" THEN "ok"
                                                ELSE "failed")]
    IN  IF outcome = "ok"
        THEN LET c1 == [c0 EXCEPT !.buffers = Append(@, Fragment(r))]
                 c2 == IF revision = "decode"
                       THEN SingleSetProgress(
                                c1, ChunkDoneProgressValue(c.i, Len(c.chunks)))
                       ELSE c1
             IN  SingleChunkLoop([c2 EXCEPT !.i = @ + 1])
        ELSE SingleCatch([c0 EXCEPT !.toast = ErrorToast(FailureMessage(outcome))],
                         MsgChunkFailed(c.i))

\* The request the run awaits is answered.
SingleResponse(r, outcome) ==
    /\ r \in inFlight /\ r.owner = "single" /\ sPc = "await"
    /\ LET c == SingleAnswer(SingleContext, r, outcome)
       IN  /\ SingleAssign(c)
           /\ inFlight' = (inFlight \ {r}) \cup c.sent
    /\ UNCHANGED <<uploadVars, callVars, revision, apiKey, isTesting, testAudioUrl, testAudioUrlRef,
                   revoked, opsStarted>>
    /\ UNCHANGED <<batchVars, testVars>>

\* mergeAudioBuffers comes back from the decoder.
SingleMergeDone(decoded) ==
    /\ sPc = "merging"
    /\ LET c0 == [SingleContext EXCEPT
                     !.results = Append(@, IF decoded THEN "decoded"
                                            ELSE "undecodable")]
           c == IF decoded THEN SingleSuccess(c0) ELSE SingleCatch(c0, MsgDecode)
       IN  SingleAssign(c)
    /\ UNCHANGED <<uploadVars, callVars, revision, apiKey, isTesting, testAudioUrl, testAudioUrlRef,
                   revoked, inFlight, opsStarted>>
    /\ UNCHANGED <<batchVars, testVars>>

\* ------------------------------------------------------------------ testVoice

\* testVoice(), up to its suspension on the request
testVoice ==
    /\ IF TestRejects(apiKey)
       THEN /\ lastToast' = ErrorToast(MsgEnterKey)
            /\ UNCHANGED <<isTesting, testAudioUrl, testAudioUrlRef, revoked,
                           inFlight, opsStarted, tPc, tIdleStart>>
       ELSE /\ tPc \in {"idle", "done"}
            /\ opsStarted < MaxOps
            /\ opsStarted' = opsStarted + 1
            /\ isTesting' = TRUE
            /\ revoked' = revoked \cup CleanupRevokes(testAudioUrlRef)
            /\ testAudioUrlRef' = NoUrl
            /\ testAudioUrl' = NoUrl
            /\ inFlight' = inFlight \cup
                   {Request("test", 0, 0, TestTextLength, revision = "progress")}
            /\ tPc' = "await"
            /\ tIdleStart' = ~isProcessing
            /\ UNCHANGED lastToast
    /\ UNCHANGED <<uploadVars, callVars, revision, apiKey, isProcessing, progress, audioUrl,
                   audioUrlRef, urlCount, blobs>>
    /\ UNCHANGED <<singleVars, batchVars>>

\* onDownloadProgress of the test request: setProgress(percentage)
TestProgressEvent(r, declared) ==
    /\ r \in inFlight /\ r.owner = "test" /\ r.callback
    /\ r.stage < ProgressSteps
    /\ inFlight' = (inFlight \ {r}) \cup {Progressed(r, declared)}
    /\ progress' = EventPercentage(Progressed(r, declared))
    /\ UNCHANGED <<uploadVars, callVars, revision, apiKey, isProcessing, isTesting, audioUrl,
                   testAudioUrl, audioUrlRef, testAudioUrlRef, lastToast,
                   urlCount, blobs, revoked, opsStarted>>
    /\ UNCHANGED <<singleVars, batchVars, testVars>>

\* The test request is answered.
TestResponse(r, outcome) ==
    /\ r \in inFlight /\ r.owner = "test" /\ tPc = "await"
    /\ inFlight' = inFlight \ {r}
    /\ IF outcome = "ok"
       THEN /\ urlCount' = urlCount + 1
            /\ blobs' = Append(blobs, concatenateBuffers(<<Fragment(r)>>))
            /\ testAudioUrlRef' = urlCount + 1
            /\ testAudioUrl' = urlCount + 1
            /\ lastToast' = SuccessToast(MsgTestGenerated, 0)
       ELSE /\ lastToast' = ErrorToast(FailureMessage(outcome))
            /\ UNCHANGED <<urlCount, blobs, testAudioUrlRef, testAudioUrl>>
    /\ isTesting' = FALSE
    /\ tPc' = "done"
    /\ UNCHANGED tIdleStart
    /\ UNCHANGED <<uploadVars, callVars, revision, apiKey, isProcessing, progress, audioUrl,
                   audioUrlRef, revoked, opsStarted>>
    /\ UNCHANGED <<singleVars, batchVars>>

\* ------------------------------------------------------------------ reset

reset ==
    /\ opsStarted < MaxOps
    /\ opsStarted' = opsStarted + 1
    /\ revoked' = revoked \cup CleanupRevokes(audioUrlRef)
                          \cup CleanupRevokes(testAudioUrlRef)
    /\ audioUrlRef' = NoUrl /\ testAudioUrlRef' = NoUrl
    /\ audioUrl' = NoUrl /\ testAudioUrl' = NoUrl
    /\ progress' = 0
    /\ isProcessing' = FALSE
    /\ isTesting' = FALSE
    /\ UNCHANGED <<uploadVars, callVars, revision, apiKey, lastToast, urlCount, blobs, inFlight>>
    /\ UNCHANGED <<singleVars, batchVars, testVars>>

\* The page renders the hook with another credential.
\* (ApiKeyInput is disabled while isProcessing.)
SetApiKey(key) ==
    /\ ~isProcessing
    /\ key # apiKey
    /\ apiKey' = key
    /\ UNCHANGED <<uploadVars, callVars, revision, isProcessing, isTesting, progress, audioUrl,
                   testAudioUrl, audioUrlRef, testAudioUrlRef, lastToast,
                   urlCount, blobs, revoked, inFlight, opsStarted>>
    /\ UNCHANGED <<singleVars, batchVars, testVars>>

\* ------------------------------------------------------------------ specification

\* The lists convertMultiple is called with: a fresh list, or the list the
\* last call returned.
BatchInputs == FreshOutputs \cup {returned}

CallConvertToSpeech == \E text \in SingleTexts : convertToSpeech(text)
CallConvertMultiple == \E outs \in BatchInputs : convertMultiple(outs)
SingleDownloadProgress ==
    \E r \in inFlight, declared \in BOOLEAN : SingleProgressEvent(r, declared)
BatchDownloadProgress ==
    \E r \in inFlight, declared \in BOOLEAN : BatchProgressEvent(r, declared)
TestDownloadProgress ==
    \E r \in inFlight, declared \in BOOLEAN : TestProgressEvent(r, declared)
SingleAnswered == \E r \in inFlight, o \in Outcomes : SingleResponse(r, o)
BatchAnswered == \E r \in inFlight, o \in Outcomes : BatchResponse(r, o)
TestAnswered == \E r \in inFlight, o \in Outcomes : TestResponse(r, o)
SingleDecoded == \E decoded \in BOOLEAN : SingleMergeDone(decoded)
BatchDecoded == \E decoded \in BOOLEAN : BatchMergeDone(decoded)
ChangeApiKey == \E key \in ApiKeys : SetApiKey(key)

Next ==
    \/ CallConvertToSpeech
    \/ CallConvertMultiple
    \/ testVoice
    \/ SingleDownloadProgress
    \/ BatchDownloadProgress
    \/ TestDownloadProgress
    \/ SingleAnswered
    \/ BatchAnswered
    \/ TestAnswered
    \/ SingleDecoded
    \/ BatchDecoded
    \/ reset
    \/ ChangeApiKey

Spec == Init /\ [][Next]_vars


\* ------------------------------------------------------------------ functions

\* The functions called on their own, on arguments from bounded sets; the
\* hook is left as it was constructed.

\* bytes received, and declared as the total, up to MaxBytes
MaxBytes == 200
\* texts of a request up to MaxTextLength characters
MaxTextLength == 2
\* lists of up to MaxFragments fragments
MaxFragments == 2
\* fragments of 1..MaxFragmentBytes bytes
MaxFragmentBytes == 2

FragmentLists ==
    UNION {[1..n -> [chunk : 0..(MaxFragments - 1), bytes : 1..MaxFragmentBytes]] :
               n \in 0..MaxFragments}

\* The calls: onDownloadProgress with progressEvent.loaded and .total
\* (total = 0 is an undeclared content length, and a declared one bounds the
\* bytes received), and the three assemblers on a list of fragments
\* (decodable: the decoder accepts every fragment).
DownloadCalls ==
    {[fn |-> "onDownloadProgress", loaded |-> loaded, total |-> total,
      textLength |-> textLength] :
         loaded \in 0..MaxBytes, total \in 0..MaxBytes,
         textLength \in 1..MaxTextLength}
AssemblerCalls ==
    {[fn |-> f, buffers |-> buffers, decodable |-> decodable] :
         f \in {"concatenateBuffers", "mergeAudioBuffers", "mergeBuffers"},
         buffers \in FragmentLists, decodable \in BOOLEAN}

NotReturned == [returned |-> FALSE]
Returned(value) == [returned |-> TRUE, value |-> value]

FunctionInit ==
    /\ HookInit
    /\ \/ fnCall \in {c \in DownloadCalls : c.total = 0 \/ c.loaded <= c.total}
       \/ fnCall \in AssemblerCalls
    /\ fnLocals = NoCall
    /\ fnResult = NotReturned

CallDownloadPercentage ==
    /\ fnCall.fn = "onDownloadProgress" /\ ~fnResult.returned
    /\ fnResult' = Returned(DownloadPercentage(fnCall.loaded, fnCall.total,
                                               fnCall.textLength))
    /\ UNCHANGED <<uploadVars, hookVars, singleVars, batchVars, testVars, fnCall, fnLocals>>

CallConcatenateBuffers ==
    /\ fnCall.fn = "concatenateBuffers" /\ ~fnResult.returned
    /\ fnResult' = Returned(Assembled(concatenateBuffers(fnCall.buffers)))
    /\ UNCHANGED <<uploadVars, hookVars, singleVars, batchVars, testVars, fnCall, fnLocals>>

CallMergeAudioBuffers ==
    /\ fnCall.fn = "mergeAudioBuffers" /\ ~fnResult.returned
    /\ fnResult' = Returned(mergeAudioBuffers(fnCall.buffers, fnCall.decodable))
    /\ UNCHANGED <<uploadVars, hookVars, singleVars, batchVars, testVars, fnCall, fnLocals>>

CallMergeBuffers ==
    /\ fnCall.fn = "mergeBuffers" /\ ~fnResult.returned
    /\ fnResult' = Returned(mergeBuffers(revision, fnCall.buffers,
                                         fnCall.decodable))
    /\ UNCHANGED <<uploadVars, hookVars, singleVars, batchVars, testVars, fnCall, fnLocals>>

FunctionNext ==
    \/ CallDownloadPercentage
    \/ CallConcatenateBuffers
    \/ CallMergeAudioBuffers
    \/ CallMergeBuffers

FunctionSpec == FunctionInit /\ [][FunctionNext]_vars

\* The segmenters called on their own, one pass of their loop at a time.

\* texts of up to MaxChars characters
MaxChars == 6
\* maxChunkSize from 1 to MaxSizeArg
MaxSizeArg == 3

Texts == UNION {[1..n -> Chars] : n \in 0..MaxChars}

\* splitTextIntoChunks(text, maxChunkSize), and chunkText(text), whose size is
\* CHUNK_SIZE
SegmenterCalls ==
    {[fn |-> "splitTextIntoChunks", text |-> text, maxChunkSize |-> size] :
         text \in Texts, size \in 1..MaxSizeArg}
    \cup {[fn |-> "chunkText", text |-> text, maxChunkSize |-> ChunkSize] :
              text \in Texts}

\* Mutant: the loop runs over the text as given, not normalized.
SegmenterLocalsRaw(text) ==
    [cleanedText |-> text, currentIndex |-> 0, chunks |-> << >>, ranges |-> << >>]

\* The locals of a segmenter on entry to its loop; ranges are the slices
\* [from, to) of the normalized text the passes have cut so far.
SegmenterLocals(text) ==
    [cleanedText |-> removeExtraWhitespaces(text), currentIndex |-> 0,
     chunks |-> << >>, ranges |-> << >>]

\* The segmenters read nothing of the hook, which is left as one of its
\* initial states.
SegmenterInit ==
    /\ HookInit /\ revision = "progress" /\ apiKey = ""
    /\ fnCall \in SegmenterCalls
    /\ fnLocals = SegmenterLocals(fnCall.text)
    /\ fnResult = NotReturned

\* Mutant: the pass pushes its chunk and leaves the chunk start where it was.
SegmenterAdvanceStays(locals, pass) ==
    [locals EXCEPT !.chunks = IF pass.chunk # << >> THEN Append(@, pass.chunk)
                              ELSE @,
                   !.ranges = Append(@, [from |-> locals.currentIndex,
                                         to |-> pass.endIndex])]

\* Mutant: the next chunk starts one character after the end of the last.
SegmenterAdvanceSkips(locals, pass) ==
    [locals EXCEPT !.currentIndex = pass.endIndex + 1,
                   !.chunks = IF pass.chunk # << >> THEN Append(@, pass.chunk)
                              ELSE @,
                   !.ranges = Append(@, [from |-> locals.currentIndex,
                                         to |-> pass.endIndex])]

\* The locals after a pass that did not throw.
SegmenterAdvance(locals, pass) ==
    [locals EXCEPT !.currentIndex = pass.endIndex,
                   !.chunks = IF pass.chunk # << >> THEN Append(@, pass.chunk)
                              ELSE @,
                   !.ranges = Append(@, [from |-> locals.currentIndex,
                                         to |-> pass.endIndex])]

\* One pass of the loop of splitTextIntoChunks; a throw leaves the function
\* with no chunks.
SplitPass ==
    /\ fnCall.fn = "splitTextIntoChunks" /\ ~fnResult.returned
    /\ fnLocals.currentIndex < Len(fnLocals.cleanedText)
    /\ LET pass == SplitIteration(fnLocals.cleanedText, fnCall.maxChunkSize,
                                  fnLocals.currentIndex)
       IN  IF pass.throws
           THEN /\ fnResult' = Returned([ok |-> FALSE, chunks |-> << >>])
                /\ UNCHANGED fnLocals
           ELSE /\ fnLocals' = SegmenterAdvance(fnLocals, pass)
                /\ UNCHANGED fnResult
    /\ UNCHANGED <<uploadVars, hookVars, singleVars, batchVars, testVars, fnCall>>

\* return chunks
SplitReturn ==
    /\ fnCall.fn = "splitTextIntoChunks" /\ ~fnResult.returned
    /\ ~(fnLocals.currentIndex < Len(fnLocals.cleanedText))
    /\ fnResult' = Returned([ok |-> TRUE, chunks |-> fnLocals.chunks])
    /\ UNCHANGED <<uploadVars, hookVars, singleVars, batchVars, testVars, fnCall, fnLocals>>

\* One pass of the loop of chunkText; a throw ends the generator after the
\* chunks it has yielded.
ChunkTextPass ==
    /\ fnCall.fn = "chunkText" /\ ~fnResult.returned
    /\ fnLocals.currentIndex < Len(fnLocals.cleanedText)
    /\ LET pass == ChunkTextIteration(fnLocals.cleanedText, fnCall.maxChunkSize,
                                      fnLocals.currentIndex)
       IN  IF pass.throws
           THEN /\ fnResult' = Returned([ok |-> FALSE, chunks |-> fnLocals.chunks])
                /\ UNCHANGED fnLocals
           ELSE /\ fnLocals' = SegmenterAdvance(fnLocals, pass)
                /\ UNCHANGED fnResult
    /\ UNCHANGED <<uploadVars, hookVars, singleVars, batchVars, testVars, fnCall>>

\* The generator is done.
ChunkTextDone ==
    /\ fnCall.fn = "chunkText" /\ ~fnResult.returned
    /\ ~(fnLocals.currentIndex < Len(fnLocals.cleanedText))
    /\ fnResult' = Returned([ok |-> TRUE, chunks |-> fnLocals.chunks])
    /\ UNCHANGED <<uploadVars, hookVars, singleVars, batchVars, testVars, fnCall, fnLocals>>

SegmenterNext ==
    \/ SplitPass
    \/ SplitReturn
    \/ ChunkTextPass
    \/ ChunkTextDone

SegmenterSpec == SegmenterInit /\ [][SegmenterNext]_vars

\* The segmenter runs on: nothing else is scheduled while it runs.
SegmenterFairSpec == SegmenterSpec /\ WF_vars(SegmenterNext)

\* ------------------------------------------------------------------ useFileUpload

\* MAX_FILES of the file list, scaled down.
MAX_FILES == 3
\* files selected in one addFiles call at most
MaxSelected == 2
\* addFiles calls that go on to read files, in one behaviour
MaxUploads == 3

ReadStatuses == {"success", "error"}

\* The hooks as constructed: no file uploaded, no read pending.
UploadInit == HookInit /\ fnCall = NoCall /\ fnLocals = NoCall /\ fnResult = NoCall

\* addFiles(fileInput) with selected files, up to its suspension on
\* Promise.all: the slots are counted from files.length of this render.
addFiles(selected) ==
    LET currentCount == Len(files)
        availableSlots == MAX_FILES - currentCount
        filesToProcess == Min(selected, availableSlots)
    IN  /\ selected > 0
        /\ IF availableSlots <= 0
           THEN /\ uploadToast' = "maximum"
                /\ UNCHANGED <<files, isLoading, pendingAdds, fileIds>>
           ELSE /\ Len(pendingAdds) + fileIds < MaxUploads
                /\ uploadToast' = IF filesToProcess < selected THEN "only some"
                                  ELSE uploadToast
                /\ isLoading' = TRUE
                /\ pendingAdds' = Append(pendingAdds, filesToProcess)
                /\ UNCHANGED <<files, fileIds>>
        /\ UNCHANGED <<hookVars, singleVars, batchVars, testVars, callVars>>

\* The reads of the p-th pending addFiles call are over, each file read or
\* in error: the toasts, setFiles(prev => [...prev, ...processedFiles]),
\* setIsLoading(false).
FilesRead(p, statuses) ==
    /\ p \in 1..Len(pendingAdds)
    /\ statuses \in [1..pendingAdds[p] -> ReadStatuses]
    /\ uploadToast' = IF \E k \in DOMAIN statuses : statuses[k] = "success"
                      THEN "uploaded" ELSE "failed"
    /\ files' = files \o [k \in 1..pendingAdds[p] |->
                              [id |-> fileIds * MaxSelected + k,
                               status |-> statuses[k]]]
    /\ fileIds' = fileIds + 1
    /\ pendingAdds' = [k \in 1..(Len(pendingAdds) - 1) |->
                           IF k < p THEN pendingAdds[k] ELSE pendingAdds[k + 1]]
    /\ isLoading' = FALSE
    /\ UNCHANGED <<hookVars, singleVars, batchVars, testVars, callVars>>

\* removeFile(fileId): setFiles(prev => prev.filter(file => file.id !== fileId))
removeFile(fileId) ==
    /\ \E k \in 1..Len(files) : files[k].id = fileId
    /\ files' = SelectSeq(files, LAMBDA file : file.id # fileId)
    /\ UNCHANGED <<isLoading, pendingAdds, uploadToast, fileIds>>
    /\ UNCHANGED <<hookVars, singleVars, batchVars, testVars, callVars>>

\* clearFiles(): setFiles([])
clearFiles ==
    /\ files # << >>
    /\ files' = << >>
    /\ UNCHANGED <<isLoading, pendingAdds, uploadToast, fileIds>>
    /\ UNCHANGED <<hookVars, singleVars, batchVars, testVars, callVars>>

CallAddFiles == \E selected \in 1..MaxSelected : addFiles(selected)
ReadsDone ==
    \E p \in 1..Len(pendingAdds) :
        \E statuses \in [1..pendingAdds[p] -> ReadStatuses] : FilesRead(p, statuses)
CallRemoveFile == \E k \in 1..Len(files) : removeFile(files[k].id)

UploadNext ==
    \/ CallAddFiles
    \/ ReadsDone
    \/ CallRemoveFile
    \/ clearFiles

UploadSpec == UploadInit /\ [][UploadNext]_vars

\* ------------------------------------------------------------------ properties

Range(f) == {f[k] : k \in DOMAIN f}

\* the chunks the conversions cut a job text into
Segmentation(text) == splitTextIntoChunks(removeExtraWhitespaces(text), ChunkSize)

\* every one of the first n requests of a job returned a fragment
AllChunksOk(results, n) ==
    /\ Len(results) >= n
    /\ \A i \in 1..n : results[i] = "ok"

\* the run of convertMultiple under way, or finished, has set the audio of job k
SetByRun(k) ==
    /\ updatedOutputs[k].audioUrl # NoUrl
    /\ updatedOutputs[k].audioUrl # outputs[k].audioUrl

Terminal(job) == job.status \in {"success", "error"}

\* C1: a job has an artifact set by the run only if every one of its chunks
\* returned a fragment, and a job with a failed chunk has none; in a batch
\* (convertMultiple) and in a single conversion (convertToSpeech).
C1_ArtifactOnlyAfterAllChunks ==
    /\ bPc # "idle" =>
         \A k \in 1..Len(updatedOutputs) :
             /\ SetByRun(k) =>
                  /\ updatedOutputs[k].status = "success"
                  /\ Segmentation(outputs[k].text).ok
                  /\ AllChunksOk(bResults[k],
                                 Len(Segmentation(outputs[k].text).chunks))
             /\ "failed" \in Range(bResults[k]) => ~SetByRun(k)
    /\ sPc # "idle" =>
         /\ audioUrl # NoUrl => /\ sChunks # << >>
                                /\ AllChunksOk(sResults, Len(sChunks))
         /\ "failed" \in Range(sResults) => audioUrl = NoUrl

\* A batch that is over, in which one job got its artifact from two fragments
\* and another job had a chunk fail.
C1_Witness ==
    /\ bPc = "done"
    /\ \E k \in 1..Len(updatedOutputs) :
           SetByRun(k) /\ Len(bResults[k]) >= 2
    /\ \E k \in 1..Len(updatedOutputs) : "failed" \in Range(bResults[k])


\* a job of the run that cannot succeed: no text, a sentence too long, a
\* request that returned no fragment, or fragments the decoder rejected
JobFails(k) ==
    \/ Blank(outputs[k].text)
    \/ ~Segmentation(outputs[k].text).ok
    \/ Range(bResults[k]) \cap {"failed", "undecodable"} # {}

\* C2: when convertMultiple is over, every job without a failure is in status
\* success with an artifact of the run, every failing job is in status error
\* with a non-empty message, whatever happened to the other jobs, and the
\* success count is the number of jobs that succeeded.
C2_BatchOutcomesIsolated ==
    bPc = "done" =>
        /\ Len(updatedOutputs) = Len(outputs)
        /\ \A k \in 1..Len(updatedOutputs) :
               IF JobFails(k)
               THEN /\ updatedOutputs[k].status = "error"
                    /\ updatedOutputs[k].error # NoError
               ELSE /\ updatedOutputs[k].status = "success"
                    /\ SetByRun(k)
        /\ successCount = Cardinality({k \in 1..Len(outputs) : ~JobFails(k)})

\* A batch of two jobs that is over: the first job lost a request, the second
\* succeeded.
C2_Witness ==
    /\ bPc = "done"
    /\ Len(updatedOutputs) = 2
    /\ "failed" \in Range(bResults[1])
    /\ updatedOutputs[1].status = "error"
    /\ updatedOutputs[2].status = "success"
    /\ successCount = 1

BatchInFlight == {r \in inFlight : r.owner = "batch"}

LexLess(a, b) == a[1] < b[1] \/ (a[1] = b[1] /\ a[2] < b[2])

\* C3: within a run of convertMultiple the requests are issued in strictly
\* increasing (job, chunk) order, one at a time, each after the one before it
\* was answered, and none for a job before every earlier job is in success or
\* error.
C3_SequentialRequests ==
    /\ [](/\ Cardinality(BatchInFlight) <= 1
          /\ \A r \in BatchInFlight :
                 /\ bPc = "await"
                 /\ <<r.job, r.chunk>> = bIssued
                 /\ \A k \in 1..r.job : Terminal(updatedOutputs[k]))
    /\ [][/\ (bRun' = bRun /\ bRequests' # bRequests) =>
                /\ bRequests' = bRequests + 1
                /\ LexLess(bIssued, bIssued')
                /\ BatchInFlight \cap BatchInFlight' = {}
          /\ bRun' # bRun =>
                /\ bRequests' <= 1
                /\ BatchInFlight = {}
                /\ bRequests' = 1 => bIssued'[2] = 0]_vars

\* The run awaits the request for the second chunk of its second job.
C3_Witness ==
    /\ bPc = "await"
    /\ bIssued = <<1, 1>>
    /\ bRequests >= 2
    /\ \E r \in BatchInFlight : r.job = 1 /\ r.chunk = 1

\* C4: once the request for chunk k of a job returned no fragment, the job is
\* in error, that request was the job's last, the fragments of the chunks
\* before k went into no artifact and mergeBuffers was not called for the job;
\* in a batch and in a single conversion.
C4_FailedChunkAbortsJob ==
    /\ bPc # "idle" =>
         \A k \in 1..Len(updatedOutputs) :
             "failed" \in Range(bResults[k]) =>
                 /\ updatedOutputs[k].status = "error"
                 /\ \A i \in 1..Len(bResults[k]) :
                        bResults[k][i] = (IF i = Len(bResults[k]) THEN "failed"
                                          ELSE "ok")
                 /\ \A r \in BatchInFlight : r.job # k - 1
                 /\ (k - 1) \notin bAssembled
                 /\ ~SetByRun(k)
    /\ (sPc # "idle" /\ "failed" \in Range(sResults)) =>
         /\ sPc = "done"
         /\ \A i \in 1..Len(sResults) :
                sResults[i] = (IF i = Len(sResults) THEN "failed" ELSE "ok")
         /\ \A r \in inFlight : r.owner # "single"
         /\ ~sAssembled
         /\ audioUrl = NoUrl

\* A job of two chunks whose first request returned a fragment and whose
\* second returned none.
C4_Witness ==
    /\ bPc # "idle"
    /\ \E k \in 1..Len(updatedOutputs) :
           /\ bResults[k] = <<"ok", "failed">>
           /\ Len(Segmentation(outputs[k].text).chunks) = 2


\* C5 (as claimed): the values a run of convertMultiple writes to progress
\* never decrease, the first is 0 and the last is 100.
C5_ProgressMonotone ==
    bPc # "idle" =>
        /\ bWrites.mono
        /\ bWrites.first = 0
        /\ bPc = "done" => bWrites.last = 100

\* C6 (as claimed): completedItems counts every job of the run that reached
\* success or error: while the run works on job bI (0-based) the jobs before
\* it are over, and after the last job all are.
C6_CompletedCountsTerminated ==
    bPc # "idle" =>
        /\ \A k \in 1..bI : Terminal(updatedOutputs[k])
        /\ completedItems = bI

\* BatchAnswered can take a step: the run waits and its request is in flight.
BatchAnswerable == bPc = "await" /\ \E r \in inFlight : r.owner = "batch"

\* BatchDecoded can take a step: the run waits for the decoder.
BatchDecodable == bPc = "merging"

\* Every request is answered in the end, and so is every decode: weak
\* fairness of BatchAnswered and of BatchDecoded, WF_vars(A) written out as
\* []<>~ENABLED <<A>>_vars \/ []<><<A>>_vars with the enabling conditions above.
FairSpec ==
    /\ Spec
    /\ ([]<>~BatchAnswerable \/ []<><<BatchAnswered>>_vars)
    /\ ([]<>~BatchDecodable \/ []<><<BatchDecoded>>_vars)

\* C7: a run of convertMultiple that waits for a request or for the decoder
\* gets to its end; the step that ends a run leaves progress at 100 and
\* isProcessing false, and at the end no job is pending or processing.
C7_BatchTerminates ==
    /\ (bPc \in {"await", "merging"}) ~> (bPc = "done")
    /\ [](bPc = "done" =>
            /\ bWrites.last = 100
            /\ bWrites.processing = "false"
            /\ \A k \in 1..Len(updatedOutputs) : Terminal(updatedOutputs[k]))
    /\ [][(bPc' = "done" /\ (bPc # "done" \/ bRun' # bRun)) =>
              (progress' = 100 /\ isProcessing' = FALSE)]_vars

\* A batch of two jobs is over, both jobs failed, one of them on a request.
C7_Witness ==
    /\ bPc = "done"
    /\ Len(updatedOutputs) = 2
    /\ \A k \in 1..2 : updatedOutputs[k].status = "error"
    /\ bRequests >= 1
    /\ successCount = 0
    /\ progress = 100 /\ ~isProcessing

\* C8: the step that ends a run of convertToSpeech leaves isProcessing false
\* and progress at 100, and these are the run's last writes to the two.
C8_SingleEndsCleared ==
    /\ [](sPc = "done" =>
            /\ sWrites.last = 100
            /\ sWrites.processing = "false")
    /\ [][(sPc' = "done" /\ sWrites' # sWrites) =>
              (progress' = 100 /\ isProcessing' = FALSE)]_vars

\* A single conversion is over that lost its second request.
C8_Witness ==
    /\ sPc = "done"
    /\ sResults = <<"ok", "failed">>
    /\ sWrites.last = 100
    /\ lastToast = ErrorToast(MsgChunkFailed(1))

\* C9: convertToSpeech called with blank text or without a credential shows
\* an error toast and changes nothing else: not progress, isProcessing,
\* audioUrl or the tracked URL, revokes nothing and sends no request.
C9_RejectedSingleCallIsInert ==
    [][\A text \in SingleTexts :
           (convertToSpeech(text) /\ (Blank(text) \/ apiKey = "")) =>
               /\ lastToast' = ErrorToast(IF Blank(text) THEN MsgEnterText
                                          ELSE MsgEnterKey)
               /\ UNCHANGED <<progress, isProcessing, audioUrl, audioUrlRef,
                              revoked, inFlight, urlCount, sPc>>]_vars

\* The call was rejected for its text while the audio of an earlier
\* conversion was there, and it still is, unrevoked.
C9_Witness ==
    /\ lastToast = ErrorToast(MsgEnterText)
    /\ audioUrl # NoUrl
    /\ audioUrlRef = audioUrl
    /\ audioUrl \notin revoked
    /\ progress = 100

\* C10: convertMultiple called without a credential returns the list it was
\* given, calls onProgress not once, sends no request and leaves isProcessing
\* and progress as they are.
C10_RejectedBatchCallIsInert ==
    [][\A outs \in BatchInputs :
           (convertMultiple(outs) /\ apiKey = "") =>
               /\ returned' = outs
               /\ UNCHANGED <<cbCount, audioOutputs, inFlight, isProcessing,
                              progress, updatedOutputs, bRequests, bPc>>]_vars

\* After a batch ran, a call without a credential returned another list than
\* the run's, unchanged, and the progress and the delivered list stayed.
C10_Witness ==
    /\ apiKey = ""
    /\ bPc = "done"
    /\ returned # << >>
    /\ returned # updatedOutputs
    /\ returned \in FreshOutputs
    /\ audioOutputs = updatedOutputs
    /\ lastToast = ErrorToast(MsgEnterKey)
    /\ progress = 100


\* a text without a character other than white space
NoContent(text) == \A i \in 1..Len(text) : IsSpace(text[i])

\* requests the run has issued for job k (1-based): answered and in flight
RequestsOf(k) ==
    Cardinality({i \in 1..Len(bResults[k]) : bResults[k][i] \in {"ok", "failed"}})
        + Cardinality({r \in BatchInFlight : r.job = k - 1})

RECURSIVE SumRequests(_)
SumRequests(n) == IF n = 0 THEN 0 ELSE RequestsOf(n) + SumRequests(n - 1)

\* C11: in a batch, no request is ever issued for a job whose text is empty
\* or white space only (every request of the run belongs to some other job);
\* once the run has passed the job it is in error with "No text to convert",
\* and the run has gone on: the next job has left pending, or the run is over.
C11_BlankJobSkipsNetwork ==
    bPc # "idle" =>
        /\ bRequests = SumRequests(Len(outputs))
        /\ \A k \in 1..Len(outputs) :
               NoContent(outputs[k].text) =>
                   /\ RequestsOf(k) = 0
                   /\ bIssued[1] # k - 1
                   /\ (k - 1) \notin bAssembled
                   /\ k <= bI =>
                        /\ updatedOutputs[k].status = "error"
                        /\ updatedOutputs[k].error = MsgNoText
                        /\ updatedOutputs[k].audioUrl = outputs[k].audioUrl
                        /\ IF k < Len(outputs)
                           THEN updatedOutputs[k + 1].status # "pending"
                           ELSE bPc = "done"

\* The first job of two had no text and is in error; the run awaits the one
\* request it has issued, for the second job.
C11_Witness ==
    /\ bPc = "await"
    /\ Len(outputs) = 2
    /\ NoContent(outputs[1].text)
    /\ updatedOutputs[1].status = "error"
    /\ updatedOutputs[2].status = "processing"
    /\ bRequests = 1
    /\ \E r \in BatchInFlight : r.job = 1


\* the run has begun job k (1-based): it is past it or at work on it
Started(k) == k <= bI \/ (k = bI + 1 /\ bPc \in {"await", "merging"})

\* the list has the jobs of the input, in the input's order
SameJobs(outs) ==
    /\ Len(outs) = Len(outputs)
    /\ \A j \in 1..Len(outs) : outs[j].text = outputs[j].text

\* C12: every list onProgress receives has the jobs of the input in its
\* order, and for every job with text that the run has begun, onProgress has
\* received a list in which the job is processing, at a time when the run had
\* issued requests for earlier jobs only; also when the job's segmentation
\* then throws.
C12_ProcessingAnnouncedFirst ==
    bPc # "idle" =>
        /\ \A n \in 1..Len(bSnapshots) : SameJobs(bSnapshots[n].outs)
        /\ \A k \in 1..Len(outputs) :
               (Started(k) /\ ~NoContent(outputs[k].text)) =>
                   \E n \in 1..Len(bSnapshots) :
                       /\ bSnapshots[n].outs[k].status = "processing"
                       /\ bSnapshots[n].requests = SumRequests(k - 1)
                       /\ \A m \in 1..(n - 1) :
                              bSnapshots[m].outs[k] = outputs[k]

\* The first job's segmentation threw after the job was announced as
\* processing; the second job was announced and its first request is out.
C12_Witness ==
    /\ bPc = "await"
    /\ Len(outputs) = 2
    /\ ~Segmentation(outputs[1].text).ok
    /\ Len(bSnapshots) = 3
    /\ bSnapshots[1].outs[1].status = "processing"
    /\ bSnapshots[2].outs[1].status = "error"
    /\ bSnapshots[3].outs[2].status = "processing"
    /\ bSnapshots[3].requests = 0
    /\ bRequests = 1


\* the input of the run followed by the lists onProgress received
Snapshots == <<outputs>> \o [n \in 1..Len(bSnapshots) |-> bSnapshots[n].outs]

\* a job's status may stay, or move pending -> processing -> success | error,
\* or pending -> error when the job has no text
StatusStep(from, to, text) ==
    \/ to = from
    \/ from = "pending" /\ to = "processing"
    \/ from = "processing" /\ to \in {"success", "error"}
    \/ from = "pending" /\ to = "error" /\ NoContent(text)

OversizedTexts == {TextLong, TextLateLong}

\* C14: no request is ever issued for a job whose text has a sentence too
\* long, for which segmentation throws, not even for a sentence that
\* fits before the long one; once the run has passed the job it is in error
\* with the message of the segmentation and without an artifact of the run,
\* and the run has gone on to the next job or is over with every job settled.
C14_OversizedJobAborted ==
    /\ bPc # "idle" =>
         \A k \in 1..Len(outputs) :
             outputs[k].text \in OversizedTexts =>
                 /\ RequestsOf(k) = 0
                 /\ bIssued[1] # k - 1
                 /\ (k - 1) \notin bAssembled
                 /\ ~SetByRun(k)
                 /\ k <= bI =>
                      /\ updatedOutputs[k].status = "error"
                      /\ updatedOutputs[k].error = MsgTooLong
                      /\ IF k < Len(outputs)
                         THEN updatedOutputs[k + 1].status # "pending"
                         ELSE bPc = "done"
    /\ bPc = "done" =>
         \A k \in 1..Len(updatedOutputs) : Terminal(updatedOutputs[k])

\* The first job of two had a sentence that fits before the one too long and
\* is in error; the second job got its requests and succeeded.
C14_Witness ==
    /\ bPc = "done"
    /\ Len(outputs) = 2
    /\ outputs[1].text = TextLateLong
    /\ \A t \in OversizedTexts : ~Segmentation(t).ok
    /\ Segmentation(Slice(TextLateLong, 0, 2)).ok
    /\ updatedOutputs[1].status = "error"
    /\ updatedOutputs[1].error = MsgTooLong
    /\ updatedOutputs[2].status = "success"
    /\ bRequests = Len(bResults[2])
    /\ bRequests >= 1


\* the object URLs created so far
Created == 1..urlCount

\* the URL is the handle a slot holds now: the single conversion's, the voice
\* test's, or a job's in the list of the last batch
Current(u) ==
    \/ u = audioUrlRef
    \/ u = testAudioUrlRef
    \/ \E k \in 1..Len(updatedOutputs) : updatedOutputs[k].audioUrl = u

\* C15 (as claimed): every object URL created is revoked once no slot holds
\* it any more, and after reset every object URL created so far is revoked,
\* those of the batch jobs too.
C15_HandlesReleased ==
    /\ [](\A u \in Created : Current(u) \/ u \in revoked)
    /\ [][reset => \A u \in Created : u \in revoked']_vars


RECURSIVE SumLengths(_)
SumLengths(chunks) ==
    IF chunks = << >> THEN 0 ELSE Len(chunks[1]) + SumLengths(Tail(chunks))

\* the blob holds the fragments of the n chunks in the order 0, 1, ..., n - 1
\* and, when it is their concatenation, as many bytes as the responses to
\* the chunks had together
InChunkOrder(blob, chunks) ==
    /\ chunks # << >>
    /\ blob.parts = [i \in 1..Len(chunks) |-> i - 1]
    /\ blob.policy \in {"concatenated", "decoded"}
    /\ blob.policy = "concatenated" =>
           blob.size = SumLengths(chunks) * RespBytesPerChar

\* C16: the artifact of a job whose chunks all returned a fragment, in a
\* batch and in a single conversion, is built from the fragments in chunk
\* order, fragment i being the response to chunk i, and under byte
\* concatenation its size is the sum of the sizes of the fragments.
C16_AssembledInChunkOrder ==
    /\ bPc # "idle" =>
         \A k \in 1..Len(updatedOutputs) :
             SetByRun(k) =>
                 InChunkOrder(blobs[updatedOutputs[k].audioUrl],
                              Segmentation(outputs[k].text).chunks)
    /\ (sPc = "done" /\ audioUrl # NoUrl) =>
         InChunkOrder(blobs[audioUrl], sChunks)
    /\ revision = "progress" =>
         \A u \in 1..Len(blobs) : blobs[u].policy = "concatenated"

\* A job of two chunks has an artifact that is the concatenation of its two
\* fragments.
C16_Witness ==
    /\ bPc = "done"
    /\ \E k \in 1..Len(updatedOutputs) :
           /\ SetByRun(k)
           /\ bResults[k] = <<"ok", "ok">>
           /\ blobs[updatedOutputs[k].audioUrl].policy = "concatenated"
           /\ blobs[updatedOutputs[k].audioUrl].parts = <<0, 1>>
           /\ blobs[updatedOutputs[k].audioUrl].size > 0


AssemblerNames == {"concatenateBuffers", "mergeAudioBuffers", "mergeBuffers"}

\* C17 (as claimed): an assembler given no fragment fails with the error of
\* the empty list and returns no artifact, whichever of mergeBuffers,
\* concatenateBuffers and mergeAudioBuffers is called.
C17_EmptyListRejected ==
    (fnResult.returned /\ fnCall.fn \in AssemblerNames
                       /\ fnCall.buffers = << >>) =>
        /\ ~fnResult.value.ok
        /\ fnResult.value.error = MsgNoBuffers

\* the message of each class of failed request, as the user reads it
ClassMessage(outcome) ==
    CASE outcome = "401" -> "Invalid API key. Please check your OpenAI API key."
      [] outcome = "429" -> "Rate limit exceeded. Please try again later."
      [] outcome = "500" -> "OpenAI service error. Please try again later."
      [] outcome \in {"503", "network"} -> "Failed to generate speech."
      [] OTHER -> "An unexpected error occurred while generating speech."

Failures == Outcomes \ {"ok"}

\* C18: a failed request is mapped to the message of its class (401, 429, 500,
\* anything else), sendTextForTTS returns null and does not throw, and the
\* request is not sent again. testVoice shows the message and ends with no
\* audio and no object URL; convertToSpeech takes the null for a failed chunk,
\* ends with "Failed to generate audio for chunk n" and no request in flight;
\* convertMultiple puts the job in error with the same message and has no
\* request in flight for that job any more.
C18_FailedRequestClassified ==
    [][/\ \A r \in inFlight, outcome \in Failures :
            TestResponse(r, outcome) =>
                /\ lastToast' = ErrorToast(ClassMessage(outcome))
                /\ inFlight' = inFlight \ {r}
                /\ tPc' = "done" /\ ~isTesting'
                /\ testAudioUrl' = NoUrl /\ urlCount' = urlCount
       /\ (Len(sResults') > Len(sResults) /\ sResults'[Len(sResults')] = "failed") =>
                /\ \E r \in inFlight :
                       /\ r.owner = "single"
                       /\ inFlight' = inFlight \ {r}
                       /\ lastToast' = ErrorToast(MsgChunkFailed(r.chunk))
                /\ sPc' = "done" /\ ~isProcessing'
                /\ audioUrl' = NoUrl /\ urlCount' = urlCount
       /\ \A k \in DOMAIN bResults \cap DOMAIN bResults' :
            (/\ Len(bResults'[k]) > Len(bResults[k])
             /\ bResults'[k][Len(bResults'[k])] = "failed") =>
                /\ \E r \in BatchInFlight :
                       /\ r.job = k - 1
                       /\ r \notin inFlight'
                       /\ updatedOutputs'[k].error = MsgChunkFailed(r.chunk)
                /\ updatedOutputs'[k].status = "error"
                /\ \A q \in inFlight' : q.owner = "batch" => q.job > k - 1
                /\ urlCount' = urlCount
      ]_vars

\* A voice test was answered 429: the rate-limit message, no audio.
C18_Witness ==
    /\ tPc = "done"
    /\ lastToast = ErrorToast("Rate limit exceeded. Please try again later.")
    /\ testAudioUrl = NoUrl
    /\ ~isTesting

\* C19: without a declared content length the percentage onDownloadProgress
\* reports is at most 95 (and at least 0), however many bytes have come in.
C19_EstimateCapped ==
    (fnResult.returned /\ fnCall.fn = "onDownloadProgress"
                       /\ fnCall.total = 0) =>
        /\ fnResult.value <= 95
        /\ fnResult.value >= 0
        /\ 2 * fnCall.loaded < fnCall.textLength * BytesPerChar =>
               fnResult.value < 95

\* More bytes have come in than the estimate of the total, and 95 is reported.
C19_Witness ==
    /\ fnResult.returned
    /\ fnCall.fn = "onDownloadProgress"
    /\ fnCall.total = 0
    /\ fnCall.loaded > fnCall.textLength * BytesPerChar
    /\ fnResult.value = 95

\* C20 (as claimed): with a declared content length the percentage reported
\* is floor(loaded / total * 100), so that 100 is reported only when all the
\* bytes are in.
C20_KnownTotalFloors ==
    (fnResult.returned /\ fnCall.fn = "onDownloadProgress"
                       /\ fnCall.total # 0) =>
        /\ fnResult.value = (fnCall.loaded * 100) \div fnCall.total
        /\ fnResult.value = 100 => fnCall.loaded = fnCall.total

\* every window of n consecutive characters of t holds a period
WindowsHavePeriod(t, n) ==
    \A i \in 1..(Len(t) - n + 1) : \E k \in i..(i + n - 1) : t[k] = "."

\* the segmenter named has returned or thrown
Segmented(fn) == fnResult.returned /\ fnCall.fn = fn

\* C21: when every window of maxChunkSize consecutive characters of the
\* normalized text holds a period, splitTextIntoChunks returns chunks, each of
\* at most maxChunkSize characters.
C21_ChunksWithinLimit ==
    (/\ Segmented("splitTextIntoChunks")
     /\ WindowsHavePeriod(removeExtraWhitespaces(fnCall.text),
                          fnCall.maxChunkSize)) =>
        /\ fnResult.value.ok
        /\ \A i \in 1..Len(fnResult.value.chunks) :
               Len(fnResult.value.chunks[i]) <= fnCall.maxChunkSize

\* C22: every chunk splitTextIntoChunks returns has at most 1.5 * maxChunkSize
\* characters, whatever the text and the size.
C22_LenientLimit ==
    Segmented("splitTextIntoChunks") =>
        \A i \in 1..Len(fnResult.value.chunks) :
            2 * Len(fnResult.value.chunks[i]) <= 3 * fnCall.maxChunkSize

\* the normalized text is one sentence: its only period is its last character
SingleSentence(t) ==
    /\ t # << >>
    /\ t[Len(t)] = "."
    /\ \A k \in 1..(Len(t) - 1) : t[k] # "."

\* 0-based index of the period of a single sentence
PeriodAt(t) == Len(t) - 1

\* the segmenter has thrown and handed no chunk to its caller
Rejected == ~fnResult.value.ok /\ fnResult.value.chunks = << >>

NoLongRun(t, n) ==
    \A i \in 1..(Len(t) - n) :
        \E k \in i..(i + n) : IsSpace(t[k]) \/ t[k] = "."

\* chunks.join(' ')
RECURSIVE JoinWithSpaces(_)
JoinWithSpaces(chunks) ==
    IF chunks = << >> THEN << >>
    ELSE IF Len(chunks) = 1 THEN chunks[1]
    ELSE chunks[1] \o <<" ">> \o JoinWithSpaces(Tail(chunks))

\* t without its whitespace
RECURSIVE WithoutSpaces(_)
WithoutSpaces(t) ==
    IF t = << >> THEN << >>
    ELSE IF IsSpace(Head(t)) THEN WithoutSpaces(Tail(t))
    ELSE <<Head(t)>> \o WithoutSpaces(Tail(t))

C25_ShortAndBlankTexts ==
    LET t == removeExtraWhitespaces(fnCall.text)
    IN  Segmented("splitTextIntoChunks") =>
            /\ (~NoContent(fnCall.text) /\ Len(t) < fnCall.maxChunkSize) =>
                   fnResult.value = [ok |-> TRUE, chunks |-> <<t>>]
            /\ NoContent(fnCall.text) =>
                   fnResult.value = [ok |-> TRUE, chunks |-> << >>]
            /\ \A i \in 1..Len(fnResult.value.chunks) :
                   ~NoContent(fnResult.value.chunks[i])

\* " a. " was segmented for size 3: its normalized form "a." is the one chunk.
C25_Witness ==
    /\ Segmented("splitTextIntoChunks")
    /\ fnCall.maxChunkSize = 3
    /\ fnCall.text = <<" ", "a", ".", " ">>
    /\ fnResult.value = [ok |-> TRUE, chunks |-> << <<"a", ".">> >>]

\* the slices cut so far start at 0, are not empty and each starts where the
\* one before it ends
Contiguous(ranges) ==
    /\ \A i \in 1..Len(ranges) : ranges[i].from < ranges[i].to
    /\ ranges # << >> => ranges[1].from = 0
    /\ \A i \in 1..(Len(ranges) - 1) : ranges[i + 1].from = ranges[i].to

\* C26: the loop of splitTextIntoChunks and of chunkText ends, by returning
\* or by throwing; every pass that does not throw moves the chunk start
\* forward; the slices cut are contiguous and do not overlap, and when the
\* loop returns they cover the normalized text.
C26_SegmentationTerminates ==
    /\ <>fnResult.returned
    /\ [][fnLocals' # fnLocals =>
              /\ fnLocals'.currentIndex > fnLocals.currentIndex
              /\ Len(fnLocals'.ranges) = Len(fnLocals.ranges) + 1]_vars
    /\ [](/\ Contiguous(fnLocals.ranges)
          /\ (fnResult.returned /\ fnResult.value.ok /\ fnLocals.ranges # << >>) =>
                 fnLocals.ranges[Len(fnLocals.ranges)].to
                     >= Len(fnLocals.cleanedText))

\* A text was cut into three slices and the loop has returned.
C26_Witness ==
    /\ fnResult.returned
    /\ fnResult.value.ok
    /\ Len(fnLocals.ranges) = 3

\* at the chunk start of the call in progress more than maxChunkSize characters
\* remain and none after the chunk start is a period
NoPeriodAhead ==
    /\ Len(fnLocals.cleanedText) - fnLocals.currentIndex > fnCall.maxChunkSize
    /\ \A k \in (fnLocals.currentIndex + 1)..(Len(fnLocals.cleanedText) - 1) :
           fnLocals.cleanedText[k + 1] # "."

\* C27: when a pass of splitTextIntoChunks starts with more than maxChunkSize
\* characters left and no period after the chunk start, it throws the
\* chunk-size error, and the caller gets no chunk, not even those already cut.
C27_NoPeriodAheadThrows ==
    [][(/\ fnCall.fn = "splitTextIntoChunks"
        /\ ~fnResult.returned
        /\ NoPeriodAhead) =>
           /\ fnResult'.returned
           /\ ~fnResult'.value.ok
           /\ fnResult'.value.chunks = << >>
           /\ fnLocals' = fnLocals]_vars

\* "a.aaa" for size 2: "a." was cut, then three characters without a period
\* were left, one over the size, and the call threw.
C27_Witness ==
    /\ Segmented("splitTextIntoChunks")
    /\ fnCall.maxChunkSize = 2
    /\ fnLocals.cleanedText = <<"a", ".", "a", "a", "a">>
    /\ fnLocals.chunks = << <<"a", ".">> >>
    /\ NoPeriodAhead
    /\ Rejected

\* a download-progress event of the voice test is delivered in this step
TestProgressStep == \E r \in inFlight, declared \in BOOLEAN : TestProgressEvent(r, declared)

\* C28: while a conversion is in progress, a download-progress event of a
\* voice test that was started before the conversion leaves the progress
\* value as it is.
C28_TestLeavesProgressAlone ==
    [][(isProcessing /\ tIdleStart /\ TestProgressStep) => progress' = progress]_vars

\* the list the k-th callback of the run is compared with: the list handed to
\* the callback before it, or the input of the run
SnapshotBefore(k) == IF k = 1 THEN outputs ELSE bSnapshots[k - 1].outs

\* C29: convertMultiple leaves its input as it got it; a list it has handed
\* to the callback is not changed by what the run does later, and the page's
\* list changes only when the callback is called; and each list handed to the
\* callback differs from the one before it (the first: from the input) in at
\* most one job.
C29_InputAndSnapshotsUntouched ==
    /\ [][bRun' = bRun =>
              /\ outputs' = outputs
              /\ Len(bSnapshots') >= Len(bSnapshots)
              /\ SubSeq(bSnapshots', 1, Len(bSnapshots)) = bSnapshots
              /\ audioOutputs' # audioOutputs => cbCount' > cbCount]_vars
    /\ [](\A k \in 1..Len(bSnapshots) :
              /\ Len(bSnapshots[k].outs) = Len(outputs)
              /\ \E idx \in 1..Len(outputs) :
                     \A m \in 1..Len(outputs) :
                         m # idx => bSnapshots[k].outs[m] = SnapshotBefore(k)[m])

\* A run over two jobs is over, both in success: four lists were handed out,
\* the first still shows job 1 processing and job 2 pending, and the input
\* still has both pending.
C29_Witness ==
    /\ bPc = "done"
    /\ Len(outputs) = 2
    /\ Len(bSnapshots) = 4
    /\ \A m \in 1..2 : outputs[m].status = "pending"
    /\ \A m \in 1..2 : updatedOutputs[m].status = "success"
    /\ bSnapshots[1].outs[1].status = "processing"
    /\ bSnapshots[1].outs[2].status = "pending"

\* C30: the list of uploaded files never holds more than MAX_FILES entries,
\* whatever addFiles, removeFile and clearFiles calls were made and however
\* the addFiles calls overlapped.
C30_FileListBounded == Len(files) <= MAX_FILES

====
